---- MODULE Spec2Model ----
(***************************************************************************)
(* Model of src/src/data_analyzer.py: SolarDataAnalyzer (load, summary,    *)
(* missing-value report, z-score outlier detection, cleaning, export) and  *)
(* DataQualityAssessor, run against a CSV file on disk.                    *)
(*                                                                         *)
(* Numbers.  Every measured value and every z-score threshold is held in   *)
(* half units (the integer 2*x stands for x), so that the median of an     *)
(* even number of values is exact.  A float result that is a quotient      *)
(* (a percentage, a score) is held as an exact fraction, with the IEEE     *)
(* not-a-number that a division 0/0 yields as a value of its own.          *)
(* Library semantics are those of pandas 1.x/2.x (DataFrame[col].fillna    *)
(* (inplace=True) writes through to the frame) and scipy.stats.zscore.     *)
(***************************************************************************)
EXTENDS Integers, Sequences, FiniteSets, TLC

(* ------------------------------ bounds --------------------------------- *)
MaxRows == 3
MaxReplace == 1

(* ------------------------------ cells ---------------------------------- *)
\* The text values that occur in the files; a text cell holds an index.
TextValues == <<"Benin", "Togo", "Post-Clean", "Pre-Clean", "trace">>

TextId(s) == CHOOSE i \in 1..Len(TextValues) : TextValues[i] = s

NaN == [k |-> "nan", v |-> 0]

Num(x) == [k |-> "num", v |-> x]

Txt(s) == [k |-> "txt", v |-> TextId(s)]

isna(c) == c.k = "nan"

Range(s) == {s[i] : i \in 1..Len(s)}

\* A DataFrame: ordered column labels, a row count, one value list per label.
Frame(cols, n, values) == [columns |-> cols, len |-> n, data |-> values]

\* dtype object: the column holds strings (or the frame has no row, in
\* which case read_csv cannot infer a numeric dtype).
IsObject(df, col) == df.len = 0 \/ \E r \in 1..df.len : df.data[col][r].k = "txt"

HasText(df, col) == \E r \in 1..df.len : df.data[col][r].k = "txt"

(* ------------------------------ CSV ------------------------------------ *)
\* A CSV file is a header line and field lines.  A field is empty, a numeric
\* literal or another string.
EmptyField == [f |-> "empty", v |-> 0]

\* Text that spells the number x (the string "3.5"), kept apart from
\* TextValues: code 1000 + x.
NumeralText(x) == [k |-> "txt", v |-> 1000 + x]

\* DataFrame.to_csv(index=False): missing -> empty field, number -> its
\* shortest round-trip literal, string -> itself.
to_csv_field(c) ==
    IF c.k = "nan" THEN EmptyField
    ELSE IF c.k = "num" THEN [f |-> "numeral", v |-> c.v]
    ELSE IF c.v >= 1000 THEN [f |-> "numeral", v |-> c.v - 1000]
    ELSE [f |-> "string", v |-> c.v]

to_csv(df) ==
    [header |-> df.columns,
     lines  |-> [r \in 1..df.len |->
                   [i \in 1..Len(df.columns) |-> to_csv_field(df.data[df.columns[i]][r])]]]

\* pd.read_csv: an empty field is missing; a column all of whose fields are
\* empty or numerals is numeric; any other string makes the column object,
\* and then its numerals stay strings.
read_csv_field(fld, object) ==
    IF fld.f = "empty" THEN NaN
    ELSE IF fld.f = "string" THEN [k |-> "txt", v |-> fld.v]
    ELSE IF object THEN NumeralText(fld.v)
    ELSE Num(fld.v)

read_csv(file) ==
    LET n == Len(file.lines)
        obj(i) == \E r \in 1..n : file.lines[r][i].f = "string"
        idx(col) == CHOOSE i \in 1..Len(file.header) : file.header[i] = col
    IN Frame(file.header, n,
             [col \in Range(file.header) |->
                [r \in 1..n |-> read_csv_field(file.lines[r][idx(col)], obj(idx(col)))]])

\* What a path can hold: nothing, a zero-byte file, or a CSV file.
NoFile == [kind |-> "absent"]

EmptyFile == [kind |-> "empty"]

CsvFile(df) == [kind |-> "csv", csv |-> to_csv(df)]

(* ------------------------- the files on disk --------------------------- *)
\* The table of the specification's scenario: GHI, DNI, Country and the rows
\* (100, 50, Benin), (missing, 60, Togo), (-5, 55, Benin).
ScenarioFrame ==
    Frame(<<"GHI", "DNI", "Country">>, 3,
          [col \in {"GHI", "DNI", "Country"} |->
             IF col = "GHI" THEN <<Num(200), NaN, Num(-10)>>
             ELSE IF col = "DNI" THEN <<Num(100), Num(120), Num(110)>>
             ELSE <<Txt("Benin"), Txt("Togo"), Txt("Benin")>>])

NumCells == {NaN, Num(-2), Num(6)}

\* The columns the generated files draw from, each with the cells it may hold.
Layouts ==
    { <<[name |-> "GHI", cells |-> NumCells], [name |-> "Tamb", cells |-> NumCells]>>,
      <<[name |-> "GHI", cells |-> {NaN, Num(-2)}],
        [name |-> "Precipitation", cells |-> {NaN, Num(-2), Txt("trace")}]>>,
      <<[name |-> "GHI", cells |-> {NaN, Num(6), Txt("trace")}],
        [name |-> "Country", cells |-> {Txt("Benin")}]>>,
      <<[name |-> "GHI", cells |-> {NaN, Num(-2)}],
        [name |-> "Cleaning", cells |-> {Txt("Pre-Clean"), Txt("Post-Clean")}]>> }

\* read_csv never yields a column that mixes numbers and strings.
Unmixed(column) ==
    ~ (\E i \in DOMAIN column : column[i].k = "num") \/ ~ (\E i \in DOMAIN column : column[i].k = "txt")

ColumnsOf(cells, n) == {column \in [1..n -> cells] : Unmixed(column)}

FramesOf(layout) ==
    LET names == [i \in 1..Len(layout) |-> layout[i].name]
        cellsOf(col) == layout[CHOOSE i \in 1..Len(layout) : layout[i].name = col].cells
    IN UNION { { Frame(names, n, values) :
                   values \in { d \in [Range(names) -> UNION {ColumnsOf(layout[i].cells, n) : i \in 1..Len(layout)}] :
                                \A col \in Range(names) : d[col] \in ColumnsOf(cellsOf(col), n) } }
               : n \in 0..MaxRows }

SourceFrames == {ScenarioFrame} \cup UNION {FramesOf(layout) : layout \in Layouts}

SourceFiles == {NoFile, EmptyFile} \cup {CsvFile(df) : df \in SourceFrames}

(* ------------------------- float results ------------------------------- *)
\* The float a / b: an exact fraction, or not-a-number for 0 / 0 (numpy and
\* pandas warn and do not raise).  No caller divides a non-zero by zero.
NaNF == [nan |-> TRUE, num |-> 0, den |-> 1]

Frac(a, b) == IF b = 0 THEN NaNF ELSE [nan |-> FALSE, num |-> a, den |-> b]

\* x > t for a float x and an integer t; false for not-a-number.
FracGt(x, t) == ~ x.nan /\ x.num > t * x.den

\* 100 - x
Minus100(x) == IF x.nan THEN NaNF ELSE Frac(100 * x.den - x.num, x.den)

RECURSIVE SumSeq(_)
SumSeq(s) == IF s = <<>> THEN 0 ELSE Head(s) + SumSeq(Tail(s))

\* The present numbers of a column, in row order.
Values(column) ==
    LET present == SelectSeq(column, LAMBDA c : c.k = "num")
    IN [i \in 1..Len(present) |-> present[i].v]

(* ------------------- SolarDataAnalyzer: pure parts --------------------- *)
None == <<>>

Some(x) == <<x>>

\* analyze_missing_values, lines 85-97.
missing_count(df) ==
    [col \in Range(df.columns) |-> Cardinality({r \in 1..df.len : isna(df.data[col][r])})]

missing_percent(df) ==
    [col \in Range(df.columns) |-> Frac(missing_count(df)[col] * 100, df.len)]

critical_columns(df, threshold) ==
    SelectSeq(df.columns, LAMBDA col : FracGt(missing_percent(df)[col], threshold))

overall_completeness(df) ==
    LET total == SumSeq([i \in 1..Len(df.columns) |-> missing_count(df)[df.columns[i]]])
    IN Minus100(Frac(total * 100, df.len * Len(df.columns)))

MissingValuesResult(df, threshold) ==
    [missing_count        |-> missing_count(df),
     missing_percent      |-> missing_percent(df),
     critical_columns     |-> critical_columns(df, threshold),
     overall_completeness |-> overall_completeness(df),
     threshold            |-> threshold]

\* get_summary_statistics, lines 62-63: describe() of the numeric columns
\* (count, mean, min and max of each; std and the quartiles are left out).
numeric_cols(df) == SelectSeq(df.columns, LAMBDA col : ~ IsObject(df, col))

Min(S) == CHOOSE x \in S : \A y \in S : x <= y

Max(S) == CHOOSE x \in S : \A y \in S : x >= y

describe(df) ==
    [col \in Range(numeric_cols(df)) |->
       LET vals == Values(df.data[col])
       IN [count |-> Len(vals),
           mean  |-> Frac(SumSeq(vals), Len(vals)),
           min   |-> IF vals = <<>> THEN NaN ELSE Num(Min(Range(vals))),
           max   |-> IF vals = <<>> THEN NaN ELSE Num(Max(Range(vals)))]]

(* --------------------------- detect_outliers --------------------------- *)
\* scipy.stats.zscore(a, nan_policy='omit') down one column: (x - mean) / std
\* with the mean and the population std of the present values.  The result is
\* held as z squared: with n present values of sum S and square sum Q,
\* z^2 = (n x - S)^2 / (n Q - S^2); not-a-number for a missing x and for a
\* column of zero spread (0 / 0).
zscore(column, r) ==
    LET vals == Values(column)
        n == Len(vals)
        S == SumSeq(vals)
        Q == SumSeq([i \in 1..n |-> vals[i] * vals[i]])
        x == column[r].v
    IN IF isna(column[r]) THEN NaNF
       ELSE Frac((n * x - S) * (n * x - S), n * Q - S * S)

\* np.abs(z) > z_threshold, the threshold in half units; false for
\* not-a-number.
AboveWithMissingFlagged(zsq, z_threshold) ==
    zsq.nan \/ z_threshold < 0 \/ 4 * zsq.num > z_threshold * z_threshold * zsq.den

BelowThreshold(zsq, z_threshold) ==
    ~ zsq.nan /\ z_threshold >= 0 /\ 4 * zsq.num < z_threshold * z_threshold * zsq.den

Above(zsq, z_threshold) ==
    ~ zsq.nan /\ (z_threshold < 0 \/ 4 * zsq.num > z_threshold * z_threshold * zsq.den)

\* line 120
available_cols(df, columns) == SelectSeq(columns, LAMBDA col : col \in Range(df.columns))

\* lines 125-126: the z-score matrix and (z > t).any(axis=1)
outlier_mask(df, columns, z_threshold) ==
    LET cols == available_cols(df, columns)
        z_scores == [r \in 1..df.len |-> [i \in 1..Len(cols) |-> zscore(df.data[cols[i]], r)]]
    IN [r \in 1..df.len |-> \E i \in 1..Len(cols) : Above(z_scores[r][i], z_threshold)]

\* lines 128-132
OutliersResult(df, mask) ==
    LET count == Cardinality({r \in DOMAIN mask : mask[r]})
    IN [mask |-> mask, count |-> count, percentage |-> Frac(count * 100, df.len)]

(* ------------------------------ clean_data ----------------------------- *)
key_columns ==
    <<"GHI", "DNI", "DHI", "ModA", "ModB", "WS", "WSgust", "Tamb", "RH", "BP", "TModA", "TModB">>

non_negative_cols == <<"GHI", "DNI", "DHI", "ModA", "ModB", "WS", "WSgust", "Precipitation">>

RECURSIVE Insert(_, _)
Insert(x, sorted) ==
    IF sorted = <<>> THEN <<x>>
    ELSE IF x <= Head(sorted) THEN <<x>> \o sorted
    ELSE <<Head(sorted)>> \o Insert(x, Tail(sorted))

RECURSIVE Sort(_)
Sort(s) == IF s = <<>> THEN <<>> ELSE Insert(Head(s), Sort(Tail(s)))

\* Series.median(): missing entries skipped; the middle value, or the mean of
\* the two middle values (exact: an even sum in half units); missing when
\* nothing is present.
median(column) ==
    LET vals == Sort(Values(column))
        n == Len(vals)
    IN IF n = 0 THEN NaN
       ELSE IF n % 2 = 1 THEN Num(vals[(n + 1) \div 2])
       ELSE Num((vals[n \div 2] + vals[n \div 2 + 1]) \div 2)

\* line 162: fillna(median_value, inplace=True) on the column of the frame
fillna_frame(df, col, value) ==
    [df EXCEPT !.data = [c \in DOMAIN @ |->
                           IF HasText(df, c) THEN @[c]
                           ELSE [r \in 1..df.len |-> IF isna(@[c][r]) THEN value ELSE @[c][r]]]]

fillna(df, col, value) ==
    [df EXCEPT !.data[col] = [r \in 1..df.len |-> IF isna(@[r]) THEN value ELSE @[r]]]

\* line 168: the value written where the column is < 0
ClampToMissing(c) == IF c.k = "num" /\ c.v < 0 THEN NaN ELSE c

Clamp(c) == IF c.k = "num" /\ c.v < 0 THEN Num(0) ELSE c

clamp_negative(df, col) ==
    [df EXCEPT !.data[col] = [r \in 1..df.len |-> Clamp(@[r])]]

\* lines 159-162.  A column of strings with a missing entry makes median()
\* raise TypeError; what was filled before stays filled.
RECURSIVE impute(_, _)
impute(df, cols) ==
    IF cols = <<>> THEN [df |-> df, raised |-> FALSE]
    ELSE IF missing_count(df)[Head(cols)] > 0
         THEN IF HasText(df, Head(cols))
              THEN [df |-> df, raised |-> TRUE]
              ELSE impute(fillna(df, Head(cols), median(df.data[Head(cols)])), Tail(cols))
         ELSE impute(df, Tail(cols))

\* lines 166-168.  Comparing a column of strings with 0 raises TypeError.
RECURSIVE correct_negative(_, _)
correct_negative(df, cols) ==
    IF cols = <<>> THEN [df |-> df, raised |-> FALSE]
    ELSE IF Head(cols) \in Range(df.columns)
         THEN IF HasText(df, Head(cols))
              THEN [df |-> df, raised |-> TRUE]
              ELSE correct_negative(clamp_negative(df, Head(cols)), Tail(cols))
         ELSE correct_negative(df, Tail(cols))

\* line 171: df['Cleaning'] = 'Post-Clean' overwrites the column when the
\* frame has it and appends it otherwise.
set_column(df, col, value) ==
    [columns |-> IF col \in Range(df.columns) THEN df.columns ELSE Append(df.columns, col),
     len     |-> df.len,
     data    |-> [c \in Range(df.columns) \cup {col} |->
                    IF c = col THEN [r \in 1..df.len |-> value] ELSE df.data[c]]]

\* lines 152-171 on a copy of the frame: the frame clean_data leaves in
\* cleaned_data, and whether it raised on the way.
CleanUnordered(df) ==
    LET b == correct_negative(df, non_negative_cols)
        a == impute(b.df, SelectSeq(key_columns, LAMBDA col : col \in Range(df.columns)))
    IN IF b.raised THEN b
       ELSE IF a.raised THEN a
       ELSE [df |-> set_column(a.df, "Cleaning", Txt("Post-Clean")), raised |-> FALSE]

Clean(df) ==
    LET available_key_cols == SelectSeq(key_columns, LAMBDA col : col \in Range(df.columns))
        a == impute(df, available_key_cols)
        b == correct_negative(a.df, non_negative_cols)
    IN IF a.raised THEN a
       ELSE IF b.raised THEN b
       ELSE [df |-> set_column(b.df, "Cleaning", Txt("Post-Clean")), raised |-> FALSE]

(* ------------------------- DataQualityAssessor ------------------------- *)
Zero == Frac(0, 1)

\* lines 225-229
assess_completeness(results) ==
    IF results.missing_values # None THEN results.missing_values[1].overall_completeness ELSE Zero

\* lines 231-235
assess_outlier_rate(results) ==
    IF results.outliers # None THEN results.outliers[1].percentage ELSE Zero

\* line 249: completeness * 0.7 + (100 - outlier_rate) * 0.3
quality_score(completeness, outlier_rate) ==
    IF completeness.nan \/ outlier_rate.nan THEN NaNF
    ELSE Frac(7 * completeness.num * outlier_rate.den
                + 3 * (100 * outlier_rate.den - outlier_rate.num) * completeness.den,
              10 * completeness.den * outlier_rate.den)

\* lines 245-255
QualityResult(results) ==
    [completeness  |-> assess_completeness(results),
     outlier_rate  |-> assess_outlier_rate(results),
     quality_score |-> quality_score(assess_completeness(results), assess_outlier_rate(results))]

(* ------------------------------ the state ------------------------------ *)
VARIABLES
    files,             \* what each path of the file system holds
    raw_data,          \* SolarDataAnalyzer.raw_data: None or Some(frame)
    cleaned_data,      \* SolarDataAnalyzer.cleaned_data: None or Some(frame)
    analysis_results,  \* SolarDataAnalyzer.analysis_results, an entry per key
    lastCall,          \* the last call made on the analyzer and how it ended
    succeeded,         \* which of load_data, clean_data have returned normally so far
    replaced,          \* how often the source file was replaced from outside
    data               \* CorrelationAnalyzer.data: None until one is constructed

vars == <<files, raw_data, cleaned_data, analysis_results, lastCall, succeeded, replaced, data>>

data_path == "data/benin.csv"

output_path == "out/benin_clean.csv"

Paths == {data_path, output_path}

\* The arguments the calls are made with (z-score thresholds in half units:
\* -1, 0.5, 1 and the default 3).
MissingThresholds == {5, 50}

ZThresholds == {-2, 1, 2, 6}

ColumnRequests == {<<"GHI">>, <<"GHI", "Tamb">>, <<"Tamb", "Country">>, <<"RH">>}

\* Files of special shape: a header without rows; a file whose GHI has a gap
\* and whose Precipitation column reads 0, trace (so both are strings).
HeaderOnlyFrame == Frame(<<"GHI", "DNI">>, 0, [col \in {"GHI", "DNI"} |-> <<>>])

TraceFrame ==
    Frame(<<"GHI", "Precipitation">>, 2,
          [col \in {"GHI", "Precipitation"} |->
             IF col = "GHI" THEN <<NaN, Num(6)>> ELSE <<NumeralText(0), Txt("trace")>>])

\* The files the analyzer's session starts from, and those the source may be
\* replaced with while the analyzer lives.
SessionFiles ==
    {NoFile, EmptyFile, CsvFile(ScenarioFrame), CsvFile(HeaderOnlyFrame), CsvFile(TraceFrame)}

Replacements == {NoFile, CsvFile(ScenarioFrame), CsvFile(HeaderOnlyFrame)}

Call(op, outcome, columns, threshold, ret) ==
    [op |-> op, outcome |-> outcome, columns |-> columns, threshold |-> threshold, ret |-> ret]

\* The methods whose success later calls depend on.
Tracked == {"load_data", "clean_data"}

Returned(op) ==
    /\ lastCall' = Call(op, "ok", <<>>, 0, None)
    /\ succeeded' = succeeded \cup ({op} \cap Tracked)

Raised(op, kind) ==
    /\ lastCall' = Call(op, kind, <<>>, 0, None)
    /\ succeeded' = succeeded

\* __init__, lines 30-34
Constructed ==
    /\ files[output_path] = NoFile
    /\ raw_data = None
    /\ cleaned_data = None
    /\ analysis_results = [summary_statistics |-> None, missing_values |-> None, outliers |-> None]
    /\ lastCall = Call("__init__", "ok", <<>>, 0, None)
    /\ succeeded = {}
    /\ replaced = 0

Init ==
    /\ files \in [Paths -> SessionFiles]
    /\ Constructed
    /\ data = None

\* lines 44-49: load_data assigns raw_data and nothing else, so what an
\* earlier clean_data left in cleaned_data stays.
ResetByLoad(cleaned) == None

KeptByLoad(cleaned) == cleaned

load_data ==
    LET file == files[data_path]
    IN /\ IF file.kind = "absent"
             THEN Raised("load_data", "FileNotFound") /\ UNCHANGED raw_data
          ELSE IF file.kind = "empty"
             THEN Raised("load_data", "EmptyDataError") /\ UNCHANGED raw_data
          ELSE Returned("load_data") /\ raw_data' = Some(read_csv(file.csv))
       /\ cleaned_data' = KeptByLoad(cleaned_data)
       /\ UNCHANGED <<files, analysis_results, replaced, data>>

\* lines 59-66
get_summary_statistics ==
    /\ IF raw_data = None
          THEN Raised("get_summary_statistics", "NotLoaded") /\ UNCHANGED analysis_results
       ELSE IF numeric_cols(raw_data[1]) = <<>>
          THEN Raised("get_summary_statistics", "ValueError") /\ UNCHANGED analysis_results
       ELSE /\ Returned("get_summary_statistics")
            /\ analysis_results' =
                 [analysis_results EXCEPT !.summary_statistics = Some(describe(raw_data[1]))]
    /\ UNCHANGED <<files, raw_data, cleaned_data, replaced, data>>

\* lines 82-100
analyze_missing_values(threshold) ==
    /\ IF raw_data = None
          THEN Raised("analyze_missing_values", "NotLoaded") /\ UNCHANGED analysis_results
       ELSE /\ lastCall' = Call("analyze_missing_values", "ok", <<>>, threshold, None)
            /\ succeeded' = succeeded
            /\ analysis_results' =
                 [analysis_results EXCEPT
                    !.missing_values = Some(MissingValuesResult(raw_data[1], threshold))]
    /\ UNCHANGED <<files, raw_data, cleaned_data, replaced, data>>

\* lines 117-134.  zscore raises TypeError on a column of strings.  On a frame
\* without rows every column has dtype object, and whether zscore raises
\* depends on the scipy release: both outcomes are possible.
detect_outliers(columns, z_threshold, strict) ==
    /\ IF raw_data = None
          THEN Raised("detect_outliers", "NotLoaded") /\ UNCHANGED analysis_results
       ELSE IF available_cols(raw_data[1], columns) = <<>>
          THEN Raised("detect_outliers", "NoColumnsFound") /\ UNCHANGED analysis_results
       ELSE IF \/ \E col \in Range(available_cols(raw_data[1], columns)) : HasText(raw_data[1], col)
               \/ raw_data[1].len = 0 /\ strict
          THEN Raised("detect_outliers", "TypeError") /\ UNCHANGED analysis_results
       ELSE /\ lastCall' = Call("detect_outliers", "ok", columns, z_threshold, None)
            /\ succeeded' = succeeded
            /\ analysis_results' =
                 [analysis_results EXCEPT
                    !.outliers = Some(OutliersResult(raw_data[1],
                                        outlier_mask(raw_data[1], columns, z_threshold)))]
    /\ UNCHANGED <<files, raw_data, cleaned_data, replaced, data>>

\* line 152: self.raw_data.copy() leaves raw_data what it was, whatever is
\* written to the copy afterwards.
SharedWithCopy(raw, copy) == Some(copy)

AfterCopy(raw, copy) == Some(raw)

\* lines 149-174.  cleaned_data is bound to the copy at line 152, before the
\* steps that may raise.
clean_data ==
    /\ IF raw_data = None
          THEN Raised("clean_data", "NotLoaded") /\ UNCHANGED <<raw_data, cleaned_data>>
       ELSE LET result == Clean(raw_data[1])
            IN /\ cleaned_data' = Some(result.df)
               /\ raw_data' = AfterCopy(raw_data[1], result.df)
               /\ IF result.raised THEN Raised("clean_data", "TypeError")
                  ELSE Returned("clean_data")
    /\ UNCHANGED <<files, analysis_results, replaced, data>>

\* lines 185-190
export_cleaned_data(path) ==
    /\ IF cleaned_data = None
          THEN Raised("export_cleaned_data", "NotCleaned") /\ UNCHANGED files
       ELSE /\ Returned("export_cleaned_data")
            /\ files' = [files EXCEPT ![path] = CsvFile(cleaned_data[1])]
    /\ UNCHANGED <<raw_data, cleaned_data, analysis_results, replaced, data>>

\* lines 200-205
get_analysis_summary ==
    /\ Returned("get_analysis_summary")
    /\ UNCHANGED <<files, raw_data, cleaned_data, analysis_results, replaced, data>>

\* lines 245-255
get_quality_score ==
    /\ lastCall' = Call("get_quality_score", "ok", <<>>, 0, Some(QualityResult(analysis_results)))
    /\ succeeded' = succeeded
    /\ UNCHANGED <<files, raw_data, cleaned_data, analysis_results, replaced, data>>

\* The user puts another file at the source path.
ReplaceFile ==
    /\ replaced < MaxReplace
    /\ \E file \in Replacements :
          /\ file # files[data_path]
          /\ files' = [files EXCEPT ![data_path] = file]
    /\ replaced' = replaced + 1
    /\ UNCHANGED <<raw_data, cleaned_data, analysis_results, lastCall, succeeded, data>>

\* Any call, in any order, on the session files; exports go to output_path.
Next ==
    \/ load_data
    \/ get_summary_statistics
    \/ \E threshold \in MissingThresholds : analyze_missing_values(threshold)
    \/ \E columns \in {<<"GHI", "Tamb">>, <<"Precipitation">>}, z_threshold \in {2, 6},
          strict \in BOOLEAN :
          detect_outliers(columns, z_threshold, strict)
    \/ clean_data
    \/ export_cleaned_data(output_path)
    \/ get_analysis_summary
    \/ get_quality_score
    \/ ReplaceFile

Spec == Init /\ [][Next]_vars

\* One analysis pipeline on every source file: load, then either the missing-
\* value report, or outlier detection at one threshold after another on the
\* same columns, or clean, export over the source, load again and clean again.
DataInit ==
    /\ files \in [Paths -> SourceFiles]
    /\ files[data_path] \notin {NoFile, EmptyFile}
    /\ Constructed
    /\ data = None

Fresh == lastCall.op = "load_data" /\ lastCall.outcome = "ok" /\ cleaned_data = None

DataNext ==
    \/ lastCall.op \in {"__init__", "export_cleaned_data"} /\ load_data
    \/ Fresh /\ \E threshold \in MissingThresholds : analyze_missing_values(threshold)
    \/ Fresh /\ \E columns \in ColumnRequests, z_threshold \in ZThresholds, strict \in BOOLEAN :
          detect_outliers(columns, z_threshold, strict)
    \/ /\ lastCall.op = "detect_outliers" /\ lastCall.outcome = "ok"
       /\ \E z_threshold \in ZThresholds : detect_outliers(lastCall.columns, z_threshold, FALSE)
    \/ lastCall.op = "load_data" /\ lastCall.outcome = "ok" /\ clean_data
    \/ lastCall.op = "clean_data" /\ export_cleaned_data(data_path)

SpecData == DataInit /\ [][DataNext]_vars

(* ------------------------------ claims --------------------------------- *)
Analyzer == {"get_summary_statistics", "analyze_missing_values", "detect_outliers", "clean_data"}

\* C1 (as claimed): a summary, missing-value, outlier or clean call made when
\* no load_data call has succeeded ends NotLoaded, and an export call made
\* when no clean_data call has succeeded ends NotCleaned.
C1_LifecyclePreconditions ==
    /\ lastCall.op \in Analyzer /\ "load_data" \notin succeeded => lastCall.outcome = "NotLoaded"
    /\ lastCall.op = "export_cleaned_data" /\ "clean_data" \notin succeeded
          => lastCall.outcome = "NotCleaned"

\* C2 (as claimed): a call that raises leaves raw_data, cleaned_data and
\* analysis_results exactly as they were before it.
C2_FailedCallChangesNothing ==
    [][lastCall'.outcome # "ok" => UNCHANGED <<raw_data, cleaned_data, analysis_results>>]_vars

\* The missing_percent x rounded down to two decimals, times 100.
Hundredths(x) == (x.num * 100) \div x.den

OnScenario(op) == raw_data = Some(ScenarioFrame) /\ lastCall.op = op

\* C3 (as claimed): on the scenario table the cleaned GHI column is
\* [100, 100, 0] and the report gives GHI missing_count 1, missing_percent 33.33.
C3_ScenarioAsClaimed ==
    /\ OnScenario("clean_data") =>
          /\ lastCall.outcome = "ok"
          /\ cleaned_data[1].data["GHI"] = <<Num(200), Num(200), Num(0)>>
    /\ OnScenario("analyze_missing_values") =>
          /\ analysis_results.missing_values[1].missing_count["GHI"] = 1
          /\ Hundredths(analysis_results.missing_values[1].missing_percent["GHI"]) = 3333

\* C3 (amended): on the scenario table the cleaned GHI column is
\* [100, 47.5, 0]: row 2 takes the median of the present values 100 and -5 as
\* they were before cleaning, row 3 is clamped to zero; the report gives GHI
\* missing_count 1 and missing_percent 33.33.
C3_Scenario ==
    /\ OnScenario("clean_data") =>
          /\ lastCall.outcome = "ok"
          /\ cleaned_data[1].data["GHI"] = <<Num(200), Num(95), Num(0)>>
          /\ cleaned_data[1].data["DNI"] = ScenarioFrame.data["DNI"]
    /\ OnScenario("analyze_missing_values") =>
          /\ analysis_results.missing_values[1].missing_count["GHI"] = 1
          /\ Hundredths(analysis_results.missing_values[1].missing_percent["GHI"]) = 3333

C3_Witness ==
    /\ OnScenario("clean_data")
    /\ cleaned_data # None
    /\ analysis_results.missing_values # None
    /\ analysis_results.missing_values[1].missing_count = [col \in {"GHI", "DNI", "Country"} |->
                                                             IF col = "GHI" THEN 1 ELSE 0]

Cleaned == lastCall.op = "clean_data" /\ lastCall.outcome = "ok"

\* A cell clean_data may rewrite: missing in a measurement column, or
\* negative in a non-negative column.
Correctable(df, col, r) ==
    \/ col \in Range(key_columns) /\ isna(df.data[col][r])
    \/ col \in Range(non_negative_cols) /\ df.data[col][r].k = "num" /\ df.data[col][r].v < 0

MarkerOnly(df) ==
    \A r \in 1..df.len : df.data["Cleaning"][r] = Txt("Post-Clean")

\* C4 (as claimed): the cleaned table has the rows of T, the columns of T and
\* the marker column, and a cell of any original column differs from T only
\* if it was missing in a measurement column or negative in a non-negative one.
C4_FrameAsClaimed ==
    Cleaned =>
       LET T == raw_data[1]
           C == cleaned_data[1]
       IN /\ C.len = T.len
          /\ Range(C.columns) = Range(T.columns) \cup {"Cleaning"}
          /\ MarkerOnly(C)
          /\ \A col \in Range(T.columns) : \A r \in 1..T.len :
                C.data[col][r] # T.data[col][r] => Correctable(T, col, r)

\* C4 (amended): the cleaned table has the rows of T in order; its columns
\* are those of T, in order, followed by 'Cleaning' unless T has a column of
\* that name, which is then overwritten in place; 'Cleaning' is 'Post-Clean'
\* in every row; a cell of any other column differs from T only if it was
\* missing in a measurement column or negative in a non-negative column.
C4_Frame ==
    Cleaned =>
       LET T == raw_data[1]
           C == cleaned_data[1]
       IN /\ C.len = T.len
          /\ C.columns = IF "Cleaning" \in Range(T.columns) THEN T.columns
                         ELSE Append(T.columns, "Cleaning")
          /\ MarkerOnly(C)
          /\ \A col \in Range(T.columns) \ {"Cleaning"} : \A r \in 1..T.len :
                C.data[col][r] # T.data[col][r] => Correctable(T, col, r)

\* A table with a gap outside the measurement columns, a gap inside them and
\* a negative value has been cleaned.
C4_Witness ==
    /\ Cleaned
    /\ raw_data[1].columns = <<"GHI", "Precipitation">>
    /\ raw_data[1].len = 3
    /\ isna(raw_data[1].data["Precipitation"][1])
    /\ isna(cleaned_data[1].data["Precipitation"][1])
    /\ isna(raw_data[1].data["GHI"][2])
    /\ cleaned_data[1].data["GHI"][2] = Num(0)
    /\ raw_data[1].data["GHI"][3] = Num(-2)

\* C5: raw_data changes only in a load_data call that succeeds.
C5_RawDataImmutable ==
    [][raw_data' # raw_data => lastCall'.op = "load_data" /\ lastCall'.outcome = "ok"]_vars

\* clean_data has rewritten cells of the copy while raw_data is the file.
C5_Witness ==
    /\ Cleaned
    /\ raw_data = Some(ScenarioFrame)
    /\ cleaned_data[1].data["GHI"] # ScenarioFrame.data["GHI"]

\* What load_data reads back after export_cleaned_data wrote a frame.
Reloaded(df) == read_csv(to_csv(df))

\* The tables clean(T), T a source table that clean_data accepts, as they
\* are loaded again.
CleanImages == {Reloaded(Clean(T).df) : T \in {df \in SourceFrames : ~ Clean(df).raised}}

Occurrences(s, x) == Cardinality({i \in 1..Len(s) : s[i] = x})

\* C6: loading clean(T) and cleaning it again yields clean(T) in every cell
\* of every column, with exactly one 'Cleaning' column.
C6_CleanIdempotent ==
    lastCall.op = "clean_data" /\ raw_data # None /\ raw_data[1] \in CleanImages =>
       /\ lastCall.outcome = "ok"
       /\ cleaned_data = raw_data
       /\ Occurrences(cleaned_data[1].columns, "Cleaning") = 1

\* The cleaned scenario table, with its imputed and its clamped cell, was
\* exported, loaded and cleaned again.
C6_Witness ==
    /\ Cleaned
    /\ raw_data = Some(Reloaded(Clean(ScenarioFrame).df))
    /\ raw_data[1].data["GHI"] = <<Num(200), Num(95), Num(0)>>
    /\ files[data_path] = CsvFile(cleaned_data[1])

InRange(x) == ~ x.nan /\ x.num >= 0 /\ x.num <= 100 * x.den

Equal(x, y) == ~ x.nan /\ ~ y.nan /\ x.num * y.den = y.num * x.den

\* C7 (as claimed): for every loaded table, zero rows included, the report
\* has each missing_percent in [0, 100], overall_completeness equal to
\* 100 - missing cells / (rows x columns) x 100 and in [0, 100], and
\* critical_columns exactly the columns with missing_percent > threshold.
C7_MissingReport ==
    lastCall.op = "analyze_missing_values" /\ lastCall.outcome = "ok" =>
       LET T == raw_data[1]
           report == analysis_results.missing_values[1]
           cells == {<<col, r>> \in Range(T.columns) \X (1..T.len) : isna(T.data[col][r])}
       IN /\ \A col \in Range(T.columns) : InRange(report.missing_percent[col])
          /\ InRange(report.overall_completeness)
          /\ Equal(report.overall_completeness,
                   [nan |-> FALSE,
                    num |-> 100 * T.len * Len(T.columns) - 100 * Cardinality(cells),
                    den |-> T.len * Len(T.columns)])
          /\ Range(report.critical_columns) =
                {col \in Range(T.columns) :
                   100 * Cardinality({r \in 1..T.len : isna(T.data[col][r])})
                      > lastCall.threshold * T.len}

\* C8 (as claimed): get_quality_score returns, with 0.0 for a result not yet
\* stored, quality_score = 0.7 x completeness + 0.3 x (100 - outlier_rate);
\* the score is in [0, 100], and is 100 for completeness 100, outlier rate 0.
C8_QualityScore ==
    lastCall.op = "get_quality_score" =>
       LET q == lastCall.ret[1]
           c == IF analysis_results.missing_values = None THEN Zero
                ELSE analysis_results.missing_values[1].overall_completeness
           o == IF analysis_results.outliers = None THEN Zero
                ELSE analysis_results.outliers[1].percentage
       IN /\ lastCall.outcome = "ok"
          /\ q.completeness = c /\ q.outlier_rate = o
          /\ InRange(q.quality_score)
          /\ 10 * q.quality_score.num * c.den * o.den
                = q.quality_score.den * (7 * c.num * o.den + 3 * (100 * o.den - o.num) * c.den)
          /\ (Equal(c, Frac(100, 1)) /\ Equal(o, Zero) => Equal(q.quality_score, Frac(100, 1)))

Detected == lastCall.op = "detect_outliers" /\ lastCall.outcome = "ok"

\* |z| > t for row r of a column, from the pairwise differences of the
\* present values x: z^2 = (sum_i (x_r - x_i))^2 / sum_{i<j} (x_i - x_j)^2,
\* defined when the column has some spread.
ZScoreExceeds(column, r, z_threshold) ==
    LET vals == Values(column)
        n == Len(vals)
        spread == SumSeq([k \in 1..(n * n) |->
                            LET i == ((k - 1) \div n) + 1
                                j == ((k - 1) % n) + 1
                            IN IF i < j THEN (vals[i] - vals[j]) * (vals[i] - vals[j]) ELSE 0])
        offset == SumSeq([i \in 1..n |-> column[r].v - vals[i]])
    IN /\ spread > 0
       /\ z_threshold < 0 \/ 4 * offset * offset > z_threshold * z_threshold * spread

\* C9: the flag vector has one entry per row; a row is flagged iff in some
\* requested column of the table its value is present and its z-score
\* magnitude is strictly above the threshold; the stored count is the number
\* of flagged rows.
C9_OutlierFlags ==
    Detected =>
       LET T == raw_data[1]
           stored == analysis_results.outliers[1]
       IN /\ DOMAIN stored.mask = 1..T.len
          /\ \A r \in 1..T.len :
                stored.mask[r] <=>
                   \E col \in Range(lastCall.columns) \cap Range(T.columns) :
                      /\ ~ isna(T.data[col][r])
                      /\ ZScoreExceeds(T.data[col], r, lastCall.threshold)
          /\ stored.count = Cardinality({r \in 1..T.len : stored.mask[r]})

\* Two columns were examined; a row with a gap in one is flagged through the
\* other, and a row with a gap is left unflagged.
C9_Witness ==
    /\ Detected
    /\ lastCall.columns = <<"GHI", "Tamb">>
    /\ raw_data[1].columns = <<"GHI", "Tamb">>
    /\ raw_data[1].len = 3
    /\ \E r \in 1..3 : isna(raw_data[1].data["GHI"][r]) /\ analysis_results.outliers[1].mask[r]
    /\ \E r \in 1..3 : isna(raw_data[1].data["Tamb"][r]) /\ ~ analysis_results.outliers[1].mask[r]
    /\ analysis_results.outliers[1].count = 2

\* C10: detect_outliers run again on the same table and columns with a
\* higher threshold flags a subset of the rows, and with a lower threshold a
\* superset; the counts are ordered accordingly.
C10_ThresholdMonotonic ==
    [][Detected /\ Detected' /\ raw_data' = raw_data /\ lastCall'.columns = lastCall.columns =>
         LET low == IF lastCall.threshold <= lastCall'.threshold
                    THEN analysis_results.outliers[1] ELSE analysis_results'.outliers[1]
             high == IF lastCall.threshold <= lastCall'.threshold
                     THEN analysis_results'.outliers[1] ELSE analysis_results.outliers[1]
         IN /\ \A r \in DOMAIN high.mask : high.mask[r] => low.mask[r]
            /\ low.count >= high.count]_vars

\* A detection at threshold 1 that flags some rows and not others, after an
\* earlier detection on the same table.
C10_Witness ==
    /\ Detected
    /\ lastCall.threshold = 2
    /\ analysis_results.outliers[1].count > 0
    /\ analysis_results.outliers[1].count < raw_data[1].len

(* ------------------------- CorrelationAnalyzer ------------------------- *)
\* A Pearson coefficient r: not-a-number, or its sign and r^2 = num / den.
NaNR == [nan |-> TRUE, sgn |-> 0, num |-> 0, den |-> 1]

Sign(x) == IF x > 0 THEN 1 ELSE IF x < 0 THEN -1 ELSE 0

\* DataFrame.corr() for two columns: over the rows where both are present,
\* cov / sqrt(var_x var_y); not-a-number when either has no spread there
\* (which covers fewer than two common rows).
pearson(x, y) ==
    LET rows == {r \in DOMAIN x : x[r].k = "num" /\ y[r].k = "num"}
        both == SelectSeq([r \in DOMAIN x |-> r], LAMBDA r : r \in rows)
        n == Len(both)
        Sx == SumSeq([i \in 1..n |-> x[both[i]].v])
        Sy == SumSeq([i \in 1..n |-> y[both[i]].v])
        Sxx == SumSeq([i \in 1..n |-> x[both[i]].v * x[both[i]].v])
        Syy == SumSeq([i \in 1..n |-> y[both[i]].v * y[both[i]].v])
        Sxy == SumSeq([i \in 1..n |-> x[both[i]].v * y[both[i]].v])
        cov == n * Sxy - Sx * Sy
        vx == n * Sxx - Sx * Sx
        vy == n * Syy - Sy * Sy
    IN IF vx * vy = 0 THEN NaNR
       ELSE [nan |-> FALSE, sgn |-> Sign(cov), num |-> cov * cov, den |-> vx * vy]

\* The matrix over a list of columns: labels on both axes, a value per pair
\* of positions.
corr(df, cols) ==
    [columns |-> cols,
     value   |-> [i \in 1..Len(cols) |->
                    [j \in 1..Len(cols) |-> pearson(df.data[cols[i]], df.data[cols[j]])]]]

\* line 314: abs(corr_val) > threshold, the threshold in half units; false
\* for not-a-number.
Strong(r, threshold) ==
    ~ r.nan /\ (threshold < 0 \/ 4 * r.num > threshold * threshold * r.den)

\* line 312: range(i+1, n) starts the inner loop past the diagonal.
InnerStartOnDiagonal(i) == i

InnerStart(i) == i + 1

\* lines 310-319: the two loops, appending in the order of the visits.
RECURSIVE strong_from(_, _, _, _)
strong_from(corr_matrix, threshold, i, j) ==
    LET n == Len(corr_matrix.columns)
    IN IF i > n THEN <<>>
       ELSE IF j > n THEN strong_from(corr_matrix, threshold, i + 1, InnerStart(i + 1))
       ELSE (IF Strong(corr_matrix.value[i][j], threshold)
             THEN << <<corr_matrix.columns[i], corr_matrix.columns[j], corr_matrix.value[i][j]>> >>
             ELSE <<>>)
            \o strong_from(corr_matrix, threshold, i, j + 1)

\* lines 307-321
strong_corrs(df, threshold) ==
    strong_from(corr(df, numeric_cols(df)), threshold, 1, InnerStart(1))

\* lines 288-292.  DataFrame.corr() on a selection that holds a column of
\* strings raises ValueError from pandas 2.0 on (numeric_only=False) and
\* leaves the non-numeric columns out before it: both outcomes are possible.
correlation_columns(df, columns, numeric_only) ==
    IF numeric_only
    THEN SelectSeq(available_cols(df, columns), LAMBDA col : ~ IsObject(df, col))
    ELSE available_cols(df, columns)

\* The frames a CorrelationAnalyzer is constructed with: three numeric
\* columns (GHI rising by 1 a row, DNI with gaps) and a column of strings
\* between them.
CorrelationFrames ==
    UNION { { Frame(<<"GHI", "Country", "DNI", "Tamb">>, n,
                    [col \in {"GHI", "Country", "DNI", "Tamb"} |->
                       IF col = "GHI" THEN ghi
                       ELSE IF col = "DNI" THEN dni
                       ELSE IF col = "Tamb" THEN tamb
                       ELSE [r \in 1..n |-> Txt("Benin")]]) :
                ghi \in {[r \in 1..n |-> Num(2 * r)]},
                dni \in [1..n -> NumCells],
                tamb \in [1..n -> {Num(-2), Num(6)}] }
            : n \in 0..MaxRows }

\* The arguments of the calls (correlation thresholds in half units: -0.5,
\* 0, the default 0.5, and 1).
CorrelationRequests ==
    { <<"GHI", "DNI">>, <<"GHI", "GHI">>, <<"GHI", "RH">>, <<"Tamb", "Country">>,
      <<"Tamb", "RH", "GHI", "DNI">>, <<>> }

CorrelationThresholds == {-1, 0, 1, 2}

\* __init__, line 273
CorrelationInit ==
    /\ files = [path \in Paths |-> NoFile]
    /\ Constructed
    /\ data \in {Some(df) : df \in CorrelationFrames}

\* lines 288-292
analyze_correlations(columns, numeric_only) ==
    /\ data # None
    /\ IF Len(available_cols(data[1], columns)) < 2
          THEN lastCall' = Call("analyze_correlations", "InsufficientColumns", columns, 0, None)
       ELSE IF ~ numeric_only /\ \E col \in Range(available_cols(data[1], columns)) : HasText(data[1], col)
          THEN lastCall' = Call("analyze_correlations", "ValueError", columns, 0, None)
       ELSE lastCall' = Call("analyze_correlations", "ok", columns, 0,
                             Some(corr(data[1], correlation_columns(data[1], columns, numeric_only))))
    /\ UNCHANGED <<files, raw_data, cleaned_data, analysis_results, succeeded, replaced, data>>

\* lines 307-321
get_strong_correlations(threshold) ==
    /\ data # None
    /\ lastCall' = Call("get_strong_correlations", "ok", <<>>, threshold,
                        Some(strong_corrs(data[1], threshold)))
    /\ UNCHANGED <<files, raw_data, cleaned_data, analysis_results, succeeded, replaced, data>>

CorrelationNext ==
    \/ \E columns \in CorrelationRequests, numeric_only \in BOOLEAN :
          analyze_correlations(columns, numeric_only)
    \/ \E threshold \in CorrelationThresholds : get_strong_correlations(threshold)

SpecCorrelation == CorrelationInit /\ [][CorrelationNext]_vars

(* -------------------------- claims, continued -------------------------- *)
Position(s, x) == CHOOSE i \in 1..Len(s) : s[i] = x

\* (i, j) comes before (k, l) in upper-triangular order.
Before(p, q) == p[1] < q[1] \/ (p[1] = q[1] /\ p[2] < q[2])

\* C11: get_strong_correlations returns, in upper-triangular order of the
\* numeric columns, exactly the pairs (i < j) whose absolute correlation is
\* strictly above the threshold: each once, none twice in either order, and
\* none of a column with itself.
C11_StrongPairs ==
    lastCall.op = "get_strong_correlations" =>
       LET df == data[1]
           cols == SelectSeq(df.columns, LAMBDA col : df.len > 0 /\ ~ HasText(df, col))
           out == lastCall.ret[1]
           place(k) == <<Position(cols, out[k][1]), Position(cols, out[k][2])>>
           strong == {p \in (1..Len(cols)) \X (1..Len(cols)) :
                        /\ p[1] < p[2]
                        /\ Strong(pearson(df.data[cols[p[1]]], df.data[cols[p[2]]]), lastCall.threshold)}
       IN /\ lastCall.outcome = "ok"
          /\ \A k \in 1..Len(out) :
                /\ out[k][1] \in Range(cols) /\ out[k][2] \in Range(cols)
                /\ out[k][1] # out[k][2]
                /\ place(k) \in strong
                /\ out[k][3] = pearson(df.data[out[k][1]], df.data[out[k][2]])
          /\ \A k, l \in 1..Len(out) :
                /\ k < l => Before(place(k), place(l))
                /\ k # l => {out[k][1], out[k][2]} # {out[l][1], out[l][2]}
          /\ {place(k) : k \in 1..Len(out)} = strong

\* At the default threshold two of the three pairs of numeric columns are
\* returned and one is left out.
C11_Witness ==
    /\ lastCall.op = "get_strong_correlations"
    /\ lastCall.threshold = 1
    /\ data[1].len = 3
    /\ Len(lastCall.ret[1]) = 2
    /\ lastCall.ret[1][1][1] = "GHI"
    /\ lastCall.ret[1][2][2] = "Tamb"

\* C12 (as claimed): analyze_correlations fails with InsufficientColumns
\* whenever fewer than 2 of the requested columns exist in the table, however
\* often the list names them, and otherwise returns a matrix indexed on both
\* axes by exactly the requested columns that are present.
C12_CorrelationRequest ==
    lastCall.op = "analyze_correlations" =>
       LET present == Range(lastCall.columns) \cap Range(data[1].columns)
       IN IF Cardinality(present) < 2
          THEN lastCall.outcome = "InsufficientColumns"
          ELSE /\ lastCall.outcome = "ok"
               /\ Range(lastCall.ret[1].columns) = present
               /\ DOMAIN lastCall.ret[1].value = 1..Len(lastCall.ret[1].columns)

\* C13: load_data leaves cleaned_data and every entry of analysis_results
\* as they were; so an export after a new load succeeds without a new clean
\* and writes the frame cleaned before, and get_quality_score reports the
\* completeness and outlier rate stored before, whatever raw_data now is.
C13_LoadKeepsDerivedState ==
    [][/\ lastCall'.op = "load_data" =>
             cleaned_data' = cleaned_data /\ analysis_results' = analysis_results
       /\ lastCall'.op = "export_cleaned_data" /\ "clean_data" \in succeeded =>
             /\ lastCall'.outcome = "ok"
             /\ files'[output_path] = CsvFile(cleaned_data[1])
       /\ lastCall'.op = "get_quality_score" =>
             /\ analysis_results.missing_values # None =>
                   lastCall'.ret[1].completeness = analysis_results.missing_values[1].overall_completeness
             /\ analysis_results.outliers # None =>
                   lastCall'.ret[1].outlier_rate = analysis_results.outliers[1].percentage]_vars

\* The scenario table was analysed and cleaned, the header-only file was
\* loaded in its place, and the export then wrote the cleaned scenario table
\* while the stored completeness is still the scenario's (100 - 100/9).
C13_Witness ==
    /\ lastCall.op = "export_cleaned_data" /\ lastCall.outcome = "ok"
    /\ raw_data = Some(HeaderOnlyFrame)
    /\ cleaned_data = Some(Clean(ScenarioFrame).df)
    /\ files[output_path] = CsvFile(Clean(ScenarioFrame).df)
    /\ analysis_results.missing_values # None
    /\ Equal(analysis_results.missing_values[1].overall_completeness, Frac(800, 9))
    /\ analysis_results.outliers # None
    /\ DOMAIN analysis_results.outliers[1].mask = 1..3

====
